---- MODULE Spec2Model ----
(***************************************************************************)
(* A model of paradoodle (src/main.rs): the decoder of a sprite container  *)
(* into RGBA spritesheets.  Every function of the source is an operator    *)
(* or a step function here; a Rust panic (a failed `expect`, a slice out   *)
(* of range, a `bytes::Buf` read with too few bytes remaining, a division  *)
(* by zero) is the outcome pc = "panic" or ok = FALSE.                     *)
(***************************************************************************)
EXTENDS Integers, Sequences, FiniteSets, TLC

VARIABLES
    rgb,    \* a call of parse_rgb565: its argument and its result
    rle,    \* a call of decompress_bytewise / decompress_wordwise
    ras,    \* a call of make_indexed_sprite / make_direct_sprite
    sub,    \* a call of make_subimage
    run     \* the run of main

vars == <<rgb, rle, ras, sub, run>>

\* The frame of a function that is not running in a specification.
Idle == [pc |-> "idle"]

-----------------------------------------------------------------------------
(* Integers of fixed width, byte sequences and the reads of bytes::Buf.    *)

\* Op applied to the value of x.  x is computed once, however often Op
\* uses its argument; the recursions below take their next argument this way.
Eval(x, Op(_)) == CHOOSE r \in { Op(v) : v \in {x} } : TRUE

\* 2^n for the shifts of a byte, n in 0..8.
Pow2(n) == << 1, 2, 4, 8, 16, 32, 64, 128, 256 >>[n + 1]

Min(a, b) == IF a < b THEN a ELSE b

\* A u16 product wraps in release builds; the claim about parse_rgb565 is that
\* it never gets there.
WrapU16(x) == x % 65536

AsU8(x) == x % 256

\* n copies of the sequence v, concatenated.
Repeat(v, n) == [k \in 1..(n * Len(v)) |-> v[((k - 1) % Len(v)) + 1]]

\* The sequences of a sequence, concatenated.
RECURSIVE Flatten(_)
Flatten(ss) ==
    IF Len(ss) = 0 THEN <<>>
    ELSE Eval(ss, LAMBDA v : v[1] \o Flatten(Tail(v)))

\* bytes[a..b] of Rust (a and b count from 0, b excluded), when it is in range.
InRange(bytes, a, b) == a <= b /\ b <= Len(bytes)
Slice(bytes, a, b) == SubSeq(bytes, a + 1, b)

\* The integer read at offset p (from 0) of bytes; the caller checks the length.
U16Le(bytes, p) == bytes[p + 1] + 256 * bytes[p + 2]

\* A u32 is kept as its four bytes, most significant first: TLC's integers are
\* 32 bits signed, a u32 is not.  get_u32_le and get_u32 differ in the order in
\* which they take the bytes of the buffer; to_le_bytes gives the least
\* significant byte first.
get_u32_le(bytes, p) == << bytes[p + 4], bytes[p + 3], bytes[p + 2], bytes[p + 1] >>
get_u32(bytes, p) == << bytes[p + 1], bytes[p + 2], bytes[p + 3], bytes[p + 4] >>
to_le_bytes(w) == << w[4], w[3], w[2], w[1] >>

\* w >> 31, w & 0x0fffffff, and w as usize when it is below 2^24 (Huge stands
\* for any greater value: no buffer of the model is that long).
TopBit(w) == w[1] \div 128
Low28(w) == (w[1] % 16) * 16777216 + w[2] * 65536 + w[3] * 256 + w[4]
Huge == 256 * 65536
AsUsize(w) == IF w[1] # 0 THEN Huge ELSE w[2] * 65536 + w[3] * 256 + w[4]

-----------------------------------------------------------------------------
(* parse_rgb565                                                            *)

Transparent == <<0, 0, 0, 0>>

\* A slip the claim about the conversion must notice: the products computed
\* in 8 bits instead of 16.
parse_rgb565_u8(value) ==
    LET r == AsU8((value \div 2048) * 255) \div 31
        g == AsU8(((value \div 32) % 64) * 255) \div 63
        b == AsU8((value % 32) * 255) \div 31
    IN  << AsU8(r), AsU8(g), AsU8(b), 255 >>

parse_rgb565(value) ==
    LET r == WrapU16((value \div 2048) * 255) \div 31
        g == WrapU16(((value \div 32) % 64) * 255) \div 63
        b == WrapU16((value % 32) * 255) \div 31
    IN  << AsU8(r), AsU8(g), AsU8(b), 255 >>

-----------------------------------------------------------------------------
(* decrypt_pixel_data                                                      *)

\* The bits of a byte, least significant first (byte_to_bits).
byte_to_bits(byte) == [k \in 1..8 |-> (byte \div Pow2(k - 1)) % 2]

\* bits_to_byte: byte | (bit << i) over the bits of a chunk, i from 0.
bits_to_byte(bits) ==
    LET Shifted(i) == IF i < Len(bits) THEN bits[i + 1] * Pow2(i) ELSE 0
    IN  Shifted(0) + Shifted(1) + Shifted(2) + Shifted(3)
            + Shifted(4) + Shifted(5) + Shifted(6) + Shifted(7)

XorByte(a, b) ==
    LET x == byte_to_bits(a)
        y == byte_to_bits(b)
    IN  bits_to_byte([k \in 1..8 |-> (x[k] + y[k]) % 2])

decrypt_pixel_data(data) == [k \in 1..Len(data) |-> XorByte(data[k], 83)]

-----------------------------------------------------------------------------
(* decompress_bytewise, decompress_wordwise: one iteration of the `while`   *)
(* per step.  A frame holds bytes (the argument), buf (how many bytes the   *)
(* cursor has consumed), chunks (the output) and pc.                        *)

remaining(f) == Len(f.bytes) - f.buf

decompress_bytewise_step(f) ==
    IF remaining(f) < 1 THEN [f EXCEPT !.pc = "done"]
    ELSE
        LET control == f.bytes[f.buf + 1]
            top_bit == control \div 128
            n       == control % 128
            at      == f.buf + 1
            left    == Len(f.bytes) - at
        IN  IF top_bit = 1 /\ left >= n
            THEN [f EXCEPT !.buf = at + n,
                           !.chunks = f.chunks \o Slice(f.bytes, at, at + n)]
            ELSE IF top_bit = 0 /\ left >= 1
            THEN [f EXCEPT !.buf = at + 1,
                           !.chunks = f.chunks \o Repeat(<<f.bytes[at + 1]>>, n)]
            ELSE [f EXCEPT !.buf = at]

\* The n literal words of a wordwise run, each read big-endian by get_u32 and
\* appended as its little-endian bytes.
WordwiseLiterals(bytes, at, n) ==
    [k \in 1..(4 * n) |->
        to_le_bytes(get_u32(bytes, at + 4 * ((k - 1) \div 4)))[((k - 1) % 4) + 1]]

decompress_wordwise_step(f) ==
    IF remaining(f) < 1 THEN [f EXCEPT !.pc = "done"]
    ELSE IF remaining(f) < 4 THEN [f EXCEPT !.pc = "panic"]
    ELSE
        LET control == get_u32_le(f.bytes, f.buf)
            top_bit == TopBit(control)
            n       == Low28(control)
            at      == f.buf + 4
            left    == Len(f.bytes) - at
        IN  IF top_bit > 0
            THEN IF left >= 4 * n
                 THEN [f EXCEPT !.buf = at + 4 * n,
                                !.chunks = f.chunks \o WordwiseLiterals(f.bytes, at, n)]
                 ELSE \* get_u32 panics at the first word that is not all there
                      [f EXCEPT !.buf = at + 4 * (left \div 4),
                                !.chunks = f.chunks
                                    \o WordwiseLiterals(f.bytes, at, left \div 4),
                                !.pc = "panic"]
            ELSE IF left >= 4
                 THEN [f EXCEPT !.buf = at + 4,
                                !.chunks = f.chunks
                                    \o Repeat(to_le_bytes(get_u32(f.bytes, at)), n)]
                 ELSE [f EXCEPT !.buf = at, !.pc = "panic"]

decompress_step(f) ==
    IF f.codec = "Bytewise" THEN decompress_bytewise_step(f)
    ELSE decompress_wordwise_step(f)

RECURSIVE decompress_run(_)
decompress_run(f) ==
    Eval(f, LAMBDA g : IF g.pc # "loop" THEN g ELSE decompress_run(decompress_step(g)))

DecompressFrame(codec, bytes) ==
    [codec |-> codec, bytes |-> bytes, buf |-> 0, chunks |-> <<>>, pc |-> "loop"]

\* The result of a whole call: ok = FALSE when it panics.
decompress_bytewise(bytes) ==
    LET f == decompress_run(DecompressFrame("Bytewise", bytes))
    IN  [ok |-> f.pc = "done", bytes |-> f.chunks]

decompress_wordwise(bytes) ==
    LET f == decompress_run(DecompressFrame("Wordwise", bytes))
    IN  [ok |-> f.pc = "done", bytes |-> f.chunks]

-----------------------------------------------------------------------------
(* A reference encoder: any encoder that follows the control format emits   *)
(* a sequence of runs, each a literal run of n units (control = n with the  *)
(* high bit set, then the units) or one unit repeated n times (control = n, *)
(* then the unit).  A unit is a sequence of 1 byte or of 4 bytes.           *)

MaxRuns == 2
MaxRunLen == 2

ByteUnits == { <<0>>, <<7>>, <<200>> }
WordUnits == { <<1, 2, 3, 4>>, <<0, 0, 0, 0>>, <<9, 9, 9, 9>> }
Units(codec) == IF codec = "Bytewise" THEN ByteUnits ELSE WordUnits

SeqsUpTo(S, n) == UNION { [1..k -> S] : k \in 0..n }

Runs(codec) ==
    { [literal |-> TRUE, units |-> us] :
        us \in UNION { [1..k -> Units(codec)] : k \in 1..MaxRunLen } }
    \cup
    { [literal |-> FALSE, units |-> Repeat(<<u>>, n)] :
        u \in Units(codec), n \in 1..MaxRunLen }

Control(codec, literal, n) ==
    IF codec = "Bytewise" THEN << (IF literal THEN 128 ELSE 0) + n >>
    ELSE << n % 256, (n \div 256) % 256, (n \div 65536) % 256,
            (IF literal THEN 128 ELSE 0) + (n \div 16777216) >>

EncodeRun(codec, r) ==
    Control(codec, r.literal, Len(r.units))
        \o (IF r.literal THEN Flatten(r.units) ELSE r.units[1])

EncodeRuns(codec, rs) == Flatten([k \in 1..Len(rs) |-> EncodeRun(codec, rs[k])])

DecodedRuns(rs) == Flatten([k \in 1..Len(rs) |-> Flatten(rs[k].units)])

\* Inputs that no encoder wrote: any bytes, malformed controls among them.
MaxRawLen == 5
RawBytes == { 0, 1, 2, 128, 129 }

RleInit ==
    \E codec \in { "Bytewise", "Wordwise" } :
        \/ \E rs \in SeqsUpTo(Runs(codec), MaxRuns) :
              rle = DecompressFrame(codec, EncodeRuns(codec, rs))
                        @@ [encoded |-> TRUE, s |-> DecodedRuns(rs)]
        \/ \E bytes \in SeqsUpTo(RawBytes, MaxRawLen) :
              rle = DecompressFrame(codec, bytes) @@ [encoded |-> FALSE, s |-> <<>>]

DecompressBytewiseIter ==
    /\ rle.pc = "loop" /\ rle.codec = "Bytewise"
    /\ rle' = decompress_bytewise_step(rle)
    /\ UNCHANGED <<rgb, ras, sub, run>>

DecompressWordwiseIter ==
    /\ rle.pc = "loop" /\ rle.codec = "Wordwise"
    /\ rle' = decompress_wordwise_step(rle)
    /\ UNCHANGED <<rgb, ras, sub, run>>

InitRle == RleInit /\ rgb = Idle /\ ras = Idle /\ sub = Idle /\ run = Idle
NextRle == DecompressBytewiseIter \/ DecompressWordwiseIter
SpecRle == InitRle /\ [][NextRle]_vars

\* C1: RLE round-trip.  Whatever runs a reference encoder chose for s, the
\* decoder neither fails on its output nor returns anything but s.
RleRoundTrip ==
    rle.encoded => /\ rle.pc # "panic"
                   /\ rle.pc = "done" => rle.chunks = rle.s

\* The round trip of the bytewise codec alone.
BytewiseRoundTrip ==
    rle.encoded /\ rle.codec = "Bytewise"
        => /\ rle.pc # "panic"
           /\ rle.pc = "done" => rle.chunks = rle.s

\* C9: decompressor read guard.  No input makes either decoder read with too
\* few bytes remaining, and every iteration of the loop consumes input.
DecompressGuarded ==
    /\ rle.pc # "panic"
    /\ rle.buf <= Len(rle.bytes)

\* The read guard of the bytewise codec alone.
BytewiseGuarded ==
    rle.codec = "Bytewise" => rle.pc # "panic" /\ rle.buf <= Len(rle.bytes)

-----------------------------------------------------------------------------
(* parse_rgb565 on every u16.                                              *)

RgbInit == \E value \in 0..65535 : rgb = [pc |-> "call", value |-> value]

ParseRgb565 ==
    /\ rgb.pc = "call"
    /\ rgb' = [rgb EXCEPT !.pc = "done"] @@ [color |-> parse_rgb565(rgb.value)]
    /\ UNCHANGED <<rle, ras, sub, run>>

InitRgb == RgbInit /\ rle = Idle /\ ras = Idle /\ sub = Idle /\ run = Idle
NextRgb == ParseRgb565
SpecRgb == InitRgb /\ [][NextRgb]_vars

\* The 5, 6 and 5 bits of a sample, and the scaling the format asks for,
\* in unbounded arithmetic.
R5(v) == v \div 2048
G6(v) == (v \div 32) % 64
B5(v) == v % 32
Scaled(v) == << (R5(v) * 255) \div 31, (G6(v) * 255) \div 63, (B5(v) * 255) \div 31, 255 >>

\* C7: RGB565 conversion.  For every 16-bit sample the result is the scaled
\* channels with alpha 255, no product exceeds 16 bits, every channel is in
\* 0..255, 0x0000 gives (0,0,0,255) and 0xFFFF gives (255,255,255,255).
Rgb565Conversion ==
    rgb.pc = "done" =>
        /\ rgb.color = Scaled(rgb.value)
        /\ R5(rgb.value) * 255 < 65536
        /\ G6(rgb.value) * 255 < 65536
        /\ B5(rgb.value) * 255 < 65536
        /\ \A k \in 1..4 : rgb.color[k] \in 0..255
        /\ rgb.value = 0 => rgb.color = <<0, 0, 0, 255>>
        /\ rgb.value = 65535 => rgb.color = <<255, 255, 255, 255>>

Rgb565Converted == rgb.pc = "done" /\ rgb.value = 65535 /\ rgb.color = <<255, 255, 255, 255>>

-----------------------------------------------------------------------------
(* RgbaImage: width, height, the pixels row by row (px), and how many times *)
(* each pixel has been written since RgbaImage::new (wr, which the program  *)
(* does not keep: it tells a pixel never written from one written with      *)
(* (0,0,0,0)).                                                              *)

RgbaImageNew(width, height) ==
    [width |-> width, height |-> height,
     px |-> [k \in 1..(width * height) |-> Transparent],
     wr |-> [k \in 1..(width * height) |-> 0]]

PixelAt(img, x, y) == img.px[y * img.width + x + 1]
WritesAt(img, x, y) == img.wr[y * img.width + x + 1]

\* put_pixel panics out of the image; the caller asks InImage first.
InImage(img, x, y) == x < img.width /\ y < img.height
put_pixel(img, x, y, color) ==
    [img EXCEPT !.px[y * img.width + x + 1] = color,
                !.wr[y * img.width + x + 1] = @ + 1]

\* GenericImage::copy_from: an error when other does not fit at (x, y), else
\* every pixel of other written at its place.
CopyFits(img, other, x, y) ==
    img.width >= other.width + x /\ img.height >= other.height + y

copy_from(img, other, x, y) ==
    LET Src(k) ==
            LET dx == ((k - 1) % img.width) - x
                dy == ((k - 1) \div img.width) - y
            IN  IF dx >= 0 /\ dx < other.width /\ dy >= 0 /\ dy < other.height
                THEN <<dx, dy>> ELSE <<-1, -1>>
    IN  [img EXCEPT
            !.px = [k \in 1..Len(img.px) |->
                        IF Src(k)[1] >= 0 THEN PixelAt(other, Src(k)[1], Src(k)[2])
                        ELSE img.px[k]],
            !.wr = [k \in 1..Len(img.wr) |->
                        IF Src(k)[1] >= 0 THEN img.wr[k] + 1 ELSE img.wr[k]]]

-----------------------------------------------------------------------------
(* make_indexed_sprite and make_direct_sprite, one iteration of the pixel   *)
(* loop per step.  `last` records what the latest iteration did.            *)

NoPixel == [i |-> -1, raw |-> -1, color |-> Transparent, looked_up |-> FALSE, put |-> FALSE]

\* bits.chunks(bpp) over the bits of all bytes, least significant bit first.
BitsOf(bytes) == Flatten([k \in 1..Len(bytes) |-> byte_to_bits(bytes[k])])
ChunksOf(bits, bpp) ==
    [k \in 1..((Len(bits) + bpp - 1) \div bpp) |->
        SubSeq(bits, (k - 1) * bpp + 1, Min(k * bpp, Len(bits)))]

IndexedFrame(bytes, def, bpp, palette) ==
    [fn |-> "indexed", bytes |-> bytes, def |-> def, bpp |-> bpp, palette |-> palette,
     chunks |-> ChunksOf(BitsOf(bytes), bpp), buf |-> Len(bytes), i |-> 0,
     img |-> RgbaImageNew(def.sprite_width_px, def.sprite_height_px),
     last |-> NoPixel, pc |-> "loop"]

\* Where the code asks whether the group is inside the sprite.
indexed_pixel_in_sprite(x, y, def) == x < def.sprite_width_px /\ y < def.sprite_height_px

\* The colour of a group: the transparent marker wins and looks nothing up.
\* (First, a slip the claim about the marker must notice: index 0 taken for
\* the marker whatever the descriptor says.)
indexed_is_transparent_zero(index, def) == def.has_transparency /\ index = 0

indexed_is_transparent(index, def) ==
    def.has_transparency /\ index = def.transparent_color_index

make_indexed_sprite_step(f) ==
    IF f.i >= Len(f.chunks) THEN [f EXCEPT !.pc = "done"]
    ELSE IF f.def.sprite_width_px = 0 THEN [f EXCEPT !.pc = "panic"]
    ELSE
        LET x     == f.i % f.def.sprite_width_px
            y     == f.i \div f.def.sprite_width_px
            index == bits_to_byte(f.chunks[f.i + 1])
            clear == indexed_is_transparent(index, f.def)
        IN  IF ~clear /\ index >= Len(f.palette)
            THEN \* palette.get(index).expect(...)
                 [f EXCEPT !.pc = "panic",
                           !.last = [i |-> f.i, raw |-> index, color |-> Transparent,
                                     looked_up |-> TRUE, put |-> FALSE]]
            ELSE
                LET color == IF clear THEN Transparent ELSE f.palette[index + 1]
                    put   == indexed_pixel_in_sprite(x, y, f.def)
                IN  [f EXCEPT !.i = f.i + 1,
                              !.img = IF put THEN put_pixel(f.img, x, y, color) ELSE f.img,
                              !.last = [i |-> f.i, raw |-> index, color |-> color,
                                        looked_up |-> ~clear, put |-> put]]

DirectFrame(bytes, def) ==
    [fn |-> "direct", bytes |-> bytes, def |-> def, bpp |-> 16, palette |-> <<>>,
     chunks |-> <<>>, buf |-> 0, i |-> 0,
     img |-> RgbaImageNew(def.sprite_width_px, def.sprite_height_px),
     last |-> NoPixel, pc |-> "loop"]

\* The condition of the `while`: bytes.remaining(), of the slice passed in,
\* which no read advances (the reads advance buf, its copy).
direct_loop_condition(f) == Len(f.bytes) >= 2

direct_color(value, def) ==
    IF def.has_transparency /\ def.transparent_color_index = value
    THEN Transparent ELSE parse_rgb565(value)

make_direct_sprite_step(f) ==
    IF ~direct_loop_condition(f) THEN [f EXCEPT !.pc = "done"]
    ELSE IF f.def.sprite_width_px = 0 THEN [f EXCEPT !.pc = "panic"]
    ELSE IF Len(f.bytes) - f.buf < 2
    THEN \* buf.get_u16_le() with fewer than 2 bytes remaining
         [f EXCEPT !.pc = "panic",
                   !.last = [NoPixel EXCEPT !.i = f.i]]
    ELSE
        LET x     == f.i % f.def.sprite_width_px
            y     == f.i \div f.def.sprite_width_px
            value == U16Le(f.bytes, f.buf)
            color == direct_color(value, f.def)
        IN  IF ~InImage(f.img, x, y)
            THEN [f EXCEPT !.pc = "panic", !.buf = f.buf + 2,
                           !.last = [i |-> f.i, raw |-> value, color |-> color,
                                     looked_up |-> FALSE, put |-> FALSE]]
            ELSE [f EXCEPT !.i = f.i + 1, !.buf = f.buf + 2,
                           !.img = put_pixel(f.img, x, y, color),
                           !.last = [i |-> f.i, raw |-> value, color |-> color,
                                     looked_up |-> FALSE, put |-> TRUE]]

sprite_step(f) ==
    IF f.fn = "indexed" THEN make_indexed_sprite_step(f) ELSE make_direct_sprite_step(f)

RECURSIVE sprite_run(_)
sprite_run(f) ==
    Eval(f, LAMBDA g : IF g.pc # "loop" THEN g ELSE sprite_run(sprite_step(g)))

make_indexed_sprite(bytes, def, bpp, palette) ==
    LET f == sprite_run(IndexedFrame(bytes, def, bpp, palette))
    IN  [ok |-> f.pc = "done", img |-> f.img]

make_direct_sprite(bytes, def) ==
    LET f == sprite_run(DirectFrame(bytes, def))
    IN  [ok |-> f.pc = "done", img |-> f.img]

-----------------------------------------------------------------------------
(* The rasterizers on small sprites.                                        *)

MaxSpriteDim == 2
MaxSpriteBytes == 2
MaxPaletteLen == 3

SpriteByteValues == { 0, 1, 3 }
MarkerValues == { 0, 1, 3 }
BppValues == { 1, 2, 4, 8 }

\* A palette of n colours, all different.
PaletteColor(k) == parse_rgb565((k * 2113) % 65536)
PaletteOfLen(n) == [k \in 1..n |-> PaletteColor(k)]

SpriteDefs ==
    [sprite_width_px : 0..MaxSpriteDim, sprite_height_px : 0..MaxSpriteDim,
     has_transparency : BOOLEAN, transparent_color_index : MarkerValues]

RasInit ==
    \E def \in SpriteDefs, bytes \in SeqsUpTo(SpriteByteValues, MaxSpriteBytes) :
        \/ \E bpp \in BppValues, n \in 0..MaxPaletteLen :
              ras = IndexedFrame(bytes, def, bpp, PaletteOfLen(n))
        \/ ras = DirectFrame(bytes, def)

MakeIndexedSpriteIter ==
    /\ ras.pc = "loop" /\ ras.fn = "indexed"
    /\ ras' = make_indexed_sprite_step(ras)
    /\ UNCHANGED <<rgb, rle, sub, run>>

MakeDirectSpriteIter ==
    /\ ras.pc = "loop" /\ ras.fn = "direct"
    /\ ras' = make_direct_sprite_step(ras)
    /\ UNCHANGED <<rgb, rle, sub, run>>

InitRas == RasInit /\ rgb = Idle /\ rle = Idle /\ sub = Idle /\ run = Idle
NextRas == MakeIndexedSpriteIter \/ MakeDirectSpriteIter
SpecRas == InitRas /\ [][NextRas]_vars

SpritePixels(def) == def.sprite_width_px * def.sprite_height_px

\* C4: direct-path termination.  With L bytes, L no more than the sprite
\* holds, the loop never reads a sample with fewer than 2 unread bytes, and
\* it ends, a sprite returned, after floor(L / 2) iterations.
DirectPathTerminates ==
    ras.fn = "direct" /\ Len(ras.bytes) <= 2 * SpritePixels(ras.def)
        => /\ ras.pc # "panic"
           /\ ras.pc = "done" => ras.i = Len(ras.bytes) \div 2
           /\ ras.pc = "loop" /\ Len(ras.bytes) - ras.buf < 2
                  => make_direct_sprite_step(ras).pc = "done"

\* C6: transparent pixel precedence.  In both rasterizers an iteration whose
\* raw index or sample is the transparent marker, transparency declared,
\* yields (0,0,0,0); the indexed one looks nothing up in the palette, so it
\* cannot fail there either.
TransparentPixelPrecedence ==
    ras.last.raw = ras.def.transparent_color_index /\ ras.def.has_transparency
        => /\ ras.last.color = Transparent
           /\ ~ras.last.looked_up
           /\ ras.fn = "indexed" => ras.pc # "panic"
           /\ ras.last.put => PixelAt(ras.img, ras.last.i % ras.def.sprite_width_px,
                                      ras.last.i \div ras.def.sprite_width_px) = Transparent

\* A transparent group whose index the palette does not hold, drawn.
TransparentOutsidePalette ==
    /\ ras.fn = "indexed" /\ ras.def.has_transparency
    /\ ras.last.raw = ras.def.transparent_color_index
    /\ ras.last.raw >= Len(ras.palette)
    /\ ras.last.put /\ ras.last.color = Transparent

\* C10: indexed-path surplus groups.  A group past the last pixel of the
\* sprite fails on nothing, whatever its index, and changes no pixel.
SurplusGroupsDropped ==
    ras.fn = "indexed" /\ SpritePixels(ras.def) > 0
        => /\ ras.pc = "panic" => ras.last.i < SpritePixels(ras.def)
           /\ ras.last.i >= SpritePixels(ras.def) => ~ras.last.put

\* What does hold of the surplus groups: none of them is drawn.
SurplusGroupsNotDrawn ==
    ras.fn = "indexed" /\ ras.last.i >= SpritePixels(ras.def) => ~ras.last.put

-----------------------------------------------------------------------------
(* make_subimage, one sprite copied per step.                               *)

SubimageFrame(sprites, def) ==
    [sprites |-> sprites, def |-> def, i |-> 0,
     img |-> RgbaImageNew(def.sprite_width_px * def.image_width,
                          def.sprite_height_px * def.image_height),
     pc |-> "loop"]

\* A slip the claim about the layout must notice: the grid's height taken
\* for its width.
subimage_origin_by_height(i, def) ==
    << (i % def.image_height) * def.sprite_width_px,
       (i \div def.image_height) * def.sprite_height_px >>

\* Where sprite i goes.
subimage_origin(i, def) ==
    << (i % def.image_width) * def.sprite_width_px,
       (i \div def.image_width) * def.sprite_height_px >>

make_subimage_step(f) ==
    IF f.i >= Len(f.sprites) THEN [f EXCEPT !.pc = "done"]
    ELSE IF f.def.image_width = 0 THEN [f EXCEPT !.pc = "panic"]
    ELSE
        LET at     == subimage_origin(f.i, f.def)
            sprite == f.sprites[f.i + 1]
        IN  IF ~CopyFits(f.img, sprite, at[1], at[2])
            THEN \* .expect("unable to copy sprite into subimage")
                 [f EXCEPT !.pc = "panic"]
            ELSE [f EXCEPT !.i = f.i + 1,
                           !.img = copy_from(f.img, sprite, at[1], at[2])]

RECURSIVE subimage_run(_)
subimage_run(f) ==
    Eval(f, LAMBDA g : IF g.pc # "loop" THEN g ELSE subimage_run(make_subimage_step(g)))

make_subimage(sprites, def) ==
    LET f == subimage_run(SubimageFrame(sprites, def))
    IN  [ok |-> f.pc = "done", img |-> f.img]

-----------------------------------------------------------------------------
(* make_subimage on grids of sprites.                                       *)

MaxGrid == 2

GridDefs ==
    [sprite_width_px : 0..MaxSpriteDim, sprite_height_px : 0..MaxSpriteDim,
     image_width : 1..MaxGrid, image_height : 1..MaxGrid]

\* A decoded sprite; no two pixels of the sprites of a grid are alike.
TestSprite(k, def, tint) ==
    [width |-> def.sprite_width_px, height |-> def.sprite_height_px,
     px |-> [p \in 1..(def.sprite_width_px * def.sprite_height_px) |-> <<k, p, tint, 255>>],
     wr |-> [p \in 1..(def.sprite_width_px * def.sprite_height_px) |-> 1]]

SubInit ==
    \E def \in GridDefs, tint \in {0, 255} :
        sub = SubimageFrame(
                [k \in 1..(def.image_width * def.image_height) |-> TestSprite(k, def, tint)],
                def)

MakeSubimageIter ==
    /\ sub.pc = "loop"
    /\ sub' = make_subimage_step(sub)
    /\ UNCHANGED <<rgb, rle, ras, run>>

InitSub == SubInit /\ rgb = Idle /\ rle = Idle /\ ras = Idle /\ run = Idle
NextSub == MakeSubimageIter
SpecSub == InitSub /\ [][NextSub]_vars

\* The pixels of img in the rectangle of the given size at (x, y), row by row.
Region(img, x, y, width, height) ==
    [p \in 1..(width * height) |->
        PixelAt(img, x + ((p - 1) % width), y + ((p - 1) \div width))]
RegionWrites(img, x, y, width, height) ==
    [p \in 1..(width * height) |->
        WritesAt(img, x + ((p - 1) % width), y + ((p - 1) \div width))]

\* C5: subimage coverage.  Of grid_width x grid_height sprites, sprite i lies
\* at ((i mod grid_width) x sprite_width, (i div grid_width) x sprite_height),
\* and when the last one is placed every pixel of the subimage has been
\* written exactly once.
SubimageCoverage ==
    /\ sub.pc # "panic"
    /\ sub.img.width = sub.def.image_width * sub.def.sprite_width_px
    /\ sub.img.height = sub.def.image_height * sub.def.sprite_height_px
    /\ \A k \in 0..(sub.i - 1) :
          Region(sub.img,
                 (k % sub.def.image_width) * sub.def.sprite_width_px,
                 (k \div sub.def.image_width) * sub.def.sprite_height_px,
                 sub.def.sprite_width_px, sub.def.sprite_height_px)
            = sub.sprites[k + 1].px
    /\ \A p \in 1..Len(sub.img.wr) : sub.img.wr[p] <= 1
    /\ sub.pc = "done" => \A p \in 1..Len(sub.img.wr) : sub.img.wr[p] = 1

\* A grid wider than high, of sprites of more than one pixel, composed.
SubimageComposed ==
    /\ sub.pc = "done"
    /\ sub.def.image_width = 2 /\ sub.def.image_height = 1
    /\ sub.def.sprite_width_px = 2 /\ sub.def.sprite_height_px = 1
    /\ sub.i = 2
    /\ sub.img.px = sub.sprites[1].px \o sub.sprites[2].px

-----------------------------------------------------------------------------
(* read_image_def: the 24 bytes of a descriptor.  ok = FALSE when a read    *)
(* finds too few bytes, or the grid has no cell (a division by zero).       *)

HeaderLen == 24

Bit(byte, k) == (byte \div Pow2(k)) % 2 = 1

PixelDataType(selector) ==
    IF selector = 0 THEN [kind |-> "Bpp", bpp |-> 1]
    ELSE IF selector = 1 THEN [kind |-> "Bpp", bpp |-> 2]
    ELSE IF selector = 2 THEN [kind |-> "Bpp", bpp |-> 4]
    ELSE IF selector = 3 THEN [kind |-> "Bpp", bpp |-> 8]
    ELSE [kind |-> "Direct", bpp |-> 0]

NoDef == [num_sprites |-> 0]

read_image_def(bytes) ==
    IF Len(bytes) < HeaderLen THEN [ok |-> FALSE, def |-> NoDef]
    ELSE
        LET flags        == bytes[5]
            image_width  == bytes[13]
            image_height == bytes[14]
            num_sprites  == U16Le(bytes, 6)
        IN  IF image_width * image_height = 0 THEN [ok |-> FALSE, def |-> NoDef]
            ELSE [ok |-> TRUE,
                  def |-> [data_length |-> AsUsize(get_u32_le(bytes, 0)),
                           has_transparency |-> Bit(flags, 2),
                           is_encrypted |-> Bit(flags, 7),
                           compression |-> IF Bit(flags, 5) THEN "Bytewise"
                                           ELSE IF Bit(flags, 6) THEN "Wordwise"
                                           ELSE "None",
                           pixel_data_type |-> PixelDataType(bytes[6]),
                           num_sprites |-> num_sprites,
                           sprite_width_px |-> bytes[9],
                           sprite_height_px |-> bytes[10],
                           offset_x |-> bytes[11],
                           offset_y |-> bytes[12],
                           image_width |-> image_width,
                           image_height |-> image_height,
                           num_palettes |-> bytes[16],
                           transparent_color_index |-> U16Le(bytes, 16),
                           palette_data_offset |-> U16Le(bytes, 18),
                           pixel_data_offset |-> U16Le(bytes, 20),
                           num_subimages |-> num_sprites \div (image_width * image_height)]]

-----------------------------------------------------------------------------
(* get_palettes                                                             *)

get_palettes(bytes, colors_per_palette, num_palettes) ==
    LET colors == [k \in 1..(Len(bytes) \div 2) |-> parse_rgb565(U16Le(bytes, 2 * (k - 1)))]
    IN  [p \in 1..num_palettes |->
            SubSeq(colors, (p - 1) * colors_per_palette + 1,
                   Min(p * colors_per_palette, Len(colors)))]

-----------------------------------------------------------------------------
(* get_pixel_data_per_sprite: the raw payload of each sprite.               *)

bytes_per_sprite(def) ==
    IF def.pixel_data_type.kind = "Bpp"
    THEN LET bits_per_sprite ==
                 def.sprite_width_px * def.sprite_height_px * def.pixel_data_type.bpp
         IN  IF bits_per_sprite % 8 = 0 THEN bits_per_sprite \div 8
             ELSE bits_per_sprite \div 8 + 1
    ELSE def.sprite_width_px * def.sprite_height_px * 2

payload(data, a, b, def) ==
    IF def.is_encrypted THEN decrypt_pixel_data(Slice(data, a, b)) ELSE Slice(data, a, b)

get_uncompressed_pixel_data(data, def) ==
    LET n == bytes_per_sprite(def)
    IN  IF \E j \in 0..(def.num_sprites - 1) : ~InRange(data, n * j, n * j + n)
        THEN [ok |-> FALSE, sprites |-> <<>>]
        ELSE [ok |-> TRUE,
              sprites |-> [j \in 1..def.num_sprites |->
                              payload(data, n * (j - 1), n * (j - 1) + n, def)]]

get_compressed_pixel_data(data, def) ==
    LET A(j) == AsUsize(get_u32_le(data, 8 * j))
        L(j) == AsUsize(get_u32_le(data, 8 * j + 4))
    IN  IF \/ 8 * def.num_sprites > Len(data)
           \/ \E j \in 0..(def.num_sprites - 1) : ~InRange(data, A(j), A(j) + L(j))
        THEN [ok |-> FALSE, sprites |-> <<>>]
        ELSE [ok |-> TRUE,
              sprites |-> [j \in 1..def.num_sprites |->
                              payload(data, A(j - 1), A(j - 1) + L(j - 1), def)]]

get_pixel_data_per_sprite(data, def) ==
    IF def.compression = "None" THEN get_uncompressed_pixel_data(data, def)
    ELSE get_compressed_pixel_data(data, def)

-----------------------------------------------------------------------------
(* make_sprite, make_spritesheet                                            *)

make_sprite(data, def, palette) ==
    Eval(IF def.compression = "None" THEN [ok |-> TRUE, bytes |-> data]
         ELSE IF def.compression = "Bytewise" THEN decompress_bytewise(data)
         ELSE decompress_wordwise(data),
         LAMBDA pixel_data :
            IF ~pixel_data.ok THEN [ok |-> FALSE, img |-> RgbaImageNew(0, 0)]
            ELSE IF def.pixel_data_type.kind = "Bpp"
            THEN make_indexed_sprite(pixel_data.bytes, def, def.pixel_data_type.bpp, palette)
            ELSE make_direct_sprite(pixel_data.bytes, def))

\* The sprites of one row band, or ok = FALSE when one of them panics.
band_sprites(def, pixel_data_per_sprite, palette) ==
    Eval([k \in 1..Len(pixel_data_per_sprite) |->
             make_sprite(pixel_data_per_sprite[k], def, palette)],
         LAMBDA made :
            [ok |-> \A k \in 1..Len(made) : made[k].ok,
             sprites |-> [k \in 1..Len(made) |-> made[k].img]])

\* The subimages of one row band: subimage j is made of sprites[a..b].
band_subimages(def, sprites) ==
    LET sprites_per_subimage == def.image_width * def.image_height
    IN  Eval([j \in 1..def.num_subimages |->
                 IF InRange(sprites, (j - 1) * sprites_per_subimage,
                            j * sprites_per_subimage)
                 THEN make_subimage(Slice(sprites, (j - 1) * sprites_per_subimage,
                                          j * sprites_per_subimage), def)
                 ELSE [ok |-> FALSE, img |-> RgbaImageNew(0, 0)]],
             LAMBDA made :
                [ok |-> \A j \in 1..Len(made) : made[j].ok,
                 subimages |-> [j \in 1..Len(made) |-> made[j].img]])

\* Where subimage j of row band i goes.
spritesheet_origin(i, j, def) ==
    << j * def.image_width * def.sprite_width_px,
       i * def.image_height * def.sprite_height_px >>

RECURSIVE place_subimages(_, _, _, _, _)
place_subimages(img, subimages, i, j, def) ==
    IF j >= Len(subimages) THEN [ok |-> TRUE, img |-> img]
    ELSE
        LET at == spritesheet_origin(i, j, def)
        IN  IF ~CopyFits(img, subimages[j + 1], at[1], at[2])
            THEN \* .expect("unable to copy subimage into spritesheet")
                 [ok |-> FALSE, img |-> img]
            ELSE Eval(copy_from(img, subimages[j + 1], at[1], at[2]),
                      LAMBDA copied : place_subimages(copied, subimages, i, j + 1, def))

\* The body of `for (i, palette) in palettes.iter().enumerate()`, from row
\* band i on.
RECURSIVE spritesheet_bands(_, _, _, _, _)
spritesheet_bands(img, def, pixel_data_per_sprite, palettes, i) ==
    IF i >= Len(palettes) THEN [ok |-> TRUE, img |-> img]
    ELSE
        Eval(band_sprites(def, pixel_data_per_sprite, palettes[i + 1]),
             LAMBDA sprites :
                IF ~sprites.ok THEN [ok |-> FALSE, img |-> img]
                ELSE
                    Eval(band_subimages(def, sprites.sprites),
                         LAMBDA subimages :
                            IF ~subimages.ok THEN [ok |-> FALSE, img |-> img]
                            ELSE
                                Eval(place_subimages(img, subimages.subimages, i, 0, def),
                                     LAMBDA placed :
                                        IF ~placed.ok THEN placed
                                        ELSE spritesheet_bands(
                                                 placed.img, def, pixel_data_per_sprite,
                                                 palettes, i + 1))))

make_spritesheet(def, pixel_data_per_sprite, palettes) ==
    spritesheet_bands(
        RgbaImageNew(def.num_subimages * def.image_width * def.sprite_width_px,
                     def.num_palettes * def.image_height * def.sprite_height_px),
        def, pixel_data_per_sprite, palettes, 0)

-----------------------------------------------------------------------------
(* The body of the loop of main over the image offsets, up to the           *)
(* spritesheet: ok = FALSE when the entry panics, `at` saying where.        *)

Failed(at) ==
    [ok |-> FALSE, at |-> at, def |-> NoDef, palettes |-> <<>>,
     pixel_data_per_sprite |-> <<>>, spritesheet |-> RgbaImageNew(0, 0)]

\* palettes stays empty unless the pixels are indexed.
entry_palettes(data, def, palette_data_index, pixel_data_index) ==
    IF def.pixel_data_type.kind = "Bpp"
    THEN IF ~InRange(data, palette_data_index, pixel_data_index)
         THEN [ok |-> FALSE, palettes |-> <<>>]
         ELSE [ok |-> TRUE,
               palettes |-> get_palettes(
                                Slice(data, palette_data_index, pixel_data_index),
                                Pow2(def.pixel_data_type.bpp), def.num_palettes)]
    ELSE [ok |-> TRUE, palettes |-> <<>>]

\* From the descriptor on: the palettes, the payloads, the spritesheet.
decode_entry(data, image_offset, def) ==
    LET start_index        == image_offset
        palette_data_index == start_index + def.palette_data_offset
        pixel_data_index   == start_index + def.pixel_data_offset
        end_index          == start_index + def.data_length
    IN  Eval(entry_palettes(data, def, palette_data_index, pixel_data_index),
             LAMBDA palettes :
                IF ~palettes.ok THEN Failed("palette data")
                ELSE IF ~InRange(data, pixel_data_index, end_index)
                THEN Failed("pixel data")
                ELSE
                    Eval(get_pixel_data_per_sprite(
                             Slice(data, pixel_data_index, end_index), def),
                         LAMBDA pixels :
                            IF ~pixels.ok THEN Failed("sprite payload")
                            ELSE
                                Eval(make_spritesheet(def, pixels.sprites,
                                                      palettes.palettes),
                                     LAMBDA sheet :
                                        [ok |-> sheet.ok,
                                         at |-> IF sheet.ok THEN "" ELSE "spritesheet",
                                         def |-> def, palettes |-> palettes.palettes,
                                         pixel_data_per_sprite |-> pixels.sprites,
                                         spritesheet |-> sheet.img])))

process_entry(data, image_offset) ==
    IF image_offset > Len(data) THEN Failed("image offset")
    ELSE
        Eval(read_image_def(Slice(data, image_offset, Len(data))),
             LAMBDA header :
                IF ~header.ok THEN Failed("descriptor")
                ELSE decode_entry(data, image_offset, header.def))

-----------------------------------------------------------------------------
(* main.  The frame holds data (the bytes of the input file), the cursor    *)
(* buf of the offset table, image_offsets, the index i of the entry the     *)
(* loop is at, saved (the indices of the spritesheets written, in the order *)
(* written), entry (what the latest entry was decoded to) and failed (the   *)
(* indices of the entries that panicked).                                   *)

NoEntry == Failed("")

MainFrame(data) ==
    [pc |-> "read", data |-> data, buf |-> 0, first_image_offset |-> 0,
     image_offsets |-> <<>>, current_offset |-> 0, i |-> 0, saved |-> <<>>,
     entry |-> NoEntry, failed |-> {}]

\* let first_image_offset = buffer.get_u32_le(); current_offset = 4
read_first_offset(f) ==
    IF Len(f.data) - f.buf < 4 THEN [f EXCEPT !.pc = "panic"]
    ELSE LET first == AsUsize(get_u32_le(f.data, f.buf))
         IN  [f EXCEPT !.pc = "table", !.buf = f.buf + 4,
                       !.first_image_offset = first,
                       !.image_offsets = <<first>>,
                       !.current_offset = 4]

\* One iteration of `while current_offset < first_image_offset`.
read_next_offset(f) ==
    IF Len(f.data) - f.buf < 4 THEN [f EXCEPT !.pc = "panic"]
    ELSE [f EXCEPT !.buf = f.buf + 4,
                   !.image_offsets = Append(f.image_offsets,
                                            AsUsize(get_u32_le(f.data, f.buf))),
                   !.current_offset = f.current_offset + 4]

\* A slip the claim about the run must notice: an entry that panics skipped,
\* the loop going on to the next.
entry_outcome_isolated(f, res, save_ok) ==
    IF res.ok /\ save_ok
    THEN [f EXCEPT !.i = f.i + 1, !.saved = Append(f.saved, f.i), !.entry = res]
    ELSE [f EXCEPT !.i = f.i + 1, !.entry = res, !.failed = f.failed \cup {f.i}]

\* The rest of the body of the loop over the entries: the spritesheet saved
\* as image-<i>.png and the loop going on, or the panic of the entry (or of
\* `.expect("failed to save")`) ending the run.
entry_outcome(f, res, save_ok) ==
    IF res.ok /\ save_ok
    THEN [f EXCEPT !.i = f.i + 1, !.saved = Append(f.saved, f.i), !.entry = res]
    ELSE [f EXCEPT !.pc = "panic", !.entry = res, !.failed = f.failed \cup {f.i}]

\* fs::read(input_path)?: the one failure main returns as an error.
ReadFile ==
    /\ run.pc = "read"
    /\ \/ run' = [run EXCEPT !.pc = "error"]
       \/ run' = [run EXCEPT !.pc = "first"]
    /\ UNCHANGED <<rgb, rle, ras, sub>>

ReadFirstOffset ==
    /\ run.pc = "first"
    /\ run' = read_first_offset(run)
    /\ UNCHANGED <<rgb, rle, ras, sub>>

ReadNextOffset ==
    /\ run.pc = "table"
    /\ run.current_offset < run.first_image_offset
    /\ run' = read_next_offset(run)
    /\ UNCHANGED <<rgb, rle, ras, sub>>

TableRead ==
    /\ run.pc = "table"
    /\ ~(run.current_offset < run.first_image_offset)
    /\ run' = [run EXCEPT !.pc = "entries"]
    /\ UNCHANGED <<rgb, rle, ras, sub>>

ProcessEntry ==
    /\ run.pc = "entries"
    /\ run.i < Len(run.image_offsets)
    /\ \E save_ok \in BOOLEAN :
          run' = entry_outcome(run,
                               process_entry(run.data, run.image_offsets[run.i + 1]),
                               save_ok)
    /\ UNCHANGED <<rgb, rle, ras, sub>>

MainReturns ==
    /\ run.pc = "entries"
    /\ run.i >= Len(run.image_offsets)
    /\ run' = [run EXCEPT !.pc = "done"]
    /\ UNCHANGED <<rgb, rle, ras, sub>>

-----------------------------------------------------------------------------
(* Input files: an offset table and, for each entry, a descriptor, a        *)
(* palette region and a pixel-data region, written out byte by byte from    *)
(* the parameters of the entry.                                             *)

Le16(n) == << n % 256, (n \div 256) % 256 >>
Le32(n) == << n % 256, (n \div 256) % 256, (n \div 65536) % 256, 0 >>

TotalLen(ss) == Len(Flatten(ss))

PadTo(bytes, unit) ==
    bytes \o [k \in 1..((unit - (Len(bytes) % unit)) % unit) |-> 0]

PackIndices(indices, bpp) ==
    LET bits == PadTo(Flatten([k \in 1..Len(indices) |->
                                  [b \in 1..bpp |-> (indices[k] \div Pow2(b - 1)) % 2]]), 8)
    IN  [m \in 1..(Len(bits) \div 8) |-> bits_to_byte(SubSeq(bits, 8 * m - 7, 8 * m))]

PaletteSamples == << 63488, 2016, 31, 65535 >>
PaletteSample(m) == PaletteSamples[((m - 1) % 4) + 1]

\* The decompressed bytes of sprite k (from 0) of entry e.
SpritePixelBytes(e, k) ==
    LET n    == e.sprite_width_px * e.sprite_height_px
        type == PixelDataType(e.selector)
    IN  IF type.kind = "Bpp"
        THEN PackIndices([p \in 1..n |-> (k + p - 1) % Min(Pow2(type.bpp), 4)], type.bpp)
        ELSE Flatten([p \in 1..n |-> Le16(PaletteSample(k + p))])

\* The same as the file stores them: one literal run when compressed, every
\* byte XORed when encrypted.
StoredSprite(e, k) ==
    LET raw == SpritePixelBytes(e, k)
        packed ==
            IF e.compression = "None" THEN raw
            ELSE IF e.compression = "Bytewise"
            THEN EncodeRun("Bytewise",
                     [literal |-> TRUE, units |-> [b \in 1..Len(raw) |-> <<raw[b]>>]])
            ELSE LET words == PadTo(raw, 4)
                 IN  EncodeRun("Wordwise",
                         [literal |-> TRUE,
                          units |-> [w \in 1..(Len(words) \div 4) |->
                                        SubSeq(words, 4 * w - 3, 4 * w)]])
    IN  IF e.is_encrypted THEN decrypt_pixel_data(packed) ELSE packed

PixelRegion(e) ==
    LET stored == [k \in 1..e.num_sprites |-> StoredSprite(e, k - 1)]
    IN  IF e.compression = "None" THEN Flatten(stored)
        ELSE Flatten([k \in 1..e.num_sprites |->
                        Le32(8 * e.num_sprites + TotalLen(SubSeq(stored, 1, k - 1)))
                            \o Le32(Len(stored[k]))])
                 \o Flatten(stored)

PaletteRegion(e) == Flatten([m \in 1..e.colors |-> Le16(PaletteSample(m))])

EntryBytes(e) ==
    LET palette == PaletteRegion(e)
        pixels  == PixelRegion(e)
        flags   == (IF e.has_transparency THEN 4 ELSE 0)
                   + (IF e.compression = "Bytewise" THEN 32 ELSE 0)
                   + (IF e.compression = "Wordwise" THEN 64 ELSE 0)
                   + (IF e.is_encrypted THEN 128 ELSE 0)
    IN  Le32(HeaderLen + Len(palette) + Len(pixels) + e.extra_length)
            \o << flags, e.selector >> \o Le16(e.num_sprites)
            \o << e.sprite_width_px, e.sprite_height_px, 0, 0,
                  e.image_width, e.image_height, 17, e.num_palettes >>
            \o Le16(e.transparent_color_index)
            \o Le16(HeaderLen) \o Le16(HeaderLen + Len(palette)) \o Le16(0)
            \o palette \o pixels

FileBytes(es) ==
    LET blobs == [k \in 1..Len(es) |-> EntryBytes(es[k])]
    IN  Flatten([k \in 1..Len(es) |->
                    Le32(4 * Len(es) + TotalLen(SubSeq(blobs, 1, k - 1)))])
            \o Flatten(blobs)

\* The entry of the format's simplest case: one 2 x 2 sprite at 8 bits per
\* pixel, not compressed, not encrypted, a palette of red, green, blue and
\* white, the pixel bytes 0, 1, 2, 3.
PlainEntry ==
    [selector |-> 3, compression |-> "None", is_encrypted |-> FALSE,
     has_transparency |-> FALSE, transparent_color_index |-> 0,
     num_sprites |-> 1, sprite_width_px |-> 2, sprite_height_px |-> 2,
     image_width |-> 1, image_height |-> 1, num_palettes |-> 1,
     colors |-> 4, extra_length |-> 0]

\* Two palettes of two colours, two sprites side by side in one subimage.
TwoPaletteEntry ==
    [PlainEntry EXCEPT !.selector = 0, !.num_palettes = 2, !.num_sprites = 2,
                       !.image_width = 2, !.sprite_height_px = 1]

\* 16-bit samples, no palette.
DirectEntry ==
    [PlainEntry EXCEPT !.selector = 4, !.colors = 0,
                       !.sprite_width_px = 1, !.sprite_height_px = 1]

\* Bytewise RLE, encrypted, index 0 transparent, two subimages.
BytewiseEntry ==
    [PlainEntry EXCEPT !.selector = 1, !.compression = "Bytewise", !.is_encrypted = TRUE,
                       !.has_transparency = TRUE, !.num_sprites = 2]

WordwiseEntry == [PlainEntry EXCEPT !.compression = "Wordwise"]

\* Malformed entries: a palette that lacks the colours the pixels name, a
\* payload length that runs past the end of the file.
ShortPaletteEntry == [PlainEntry EXCEPT !.colors = 2]
LongDataEntry == [PlainEntry EXCEPT !.extra_length = 60000]

EntryKinds ==
    { PlainEntry, TwoPaletteEntry, DirectEntry, BytewiseEntry, WordwiseEntry,
      ShortPaletteEntry, LongDataEntry }

MaxEntries == 3

\* A file cut short: 6 bytes hold less than the table of two entries.
CutLengths(bytes) == { Len(bytes), Min(6, Len(bytes)) }

MainInit ==
    \E es \in UNION { [1..n -> EntryKinds] : n \in 1..MaxEntries } :
        \E cut \in CutLengths(FileBytes(es)) :
            run = MainFrame(SubSeq(FileBytes(es), 1, cut))

InitMain == MainInit /\ rgb = Idle /\ rle = Idle /\ ras = Idle /\ sub = Idle
NextMain ==
    \/ ReadFile
    \/ ReadFirstOffset
    \/ ReadNextOffset
    \/ TableRead
    \/ ProcessEntry
    \/ MainReturns
SpecMain == InitMain /\ [][NextMain]_vars

-----------------------------------------------------------------------------
(* The claims about main.                                                   *)

\* What the spritesheet of the latest entry should hold for subimage j of row
\* band i: the subimage composed of the sprites rasterized for that band.
BandPalette(e, i) == IF i < Len(e.palettes) THEN e.palettes[i + 1] ELSE <<>>

BandComposed(e, i, j) ==
    LET def       == e.def
        width     == def.image_width * def.sprite_width_px
        height    == def.image_height * def.sprite_height_px
        sprites   == band_sprites(def, e.pixel_data_per_sprite, BandPalette(e, i))
        subimages == band_subimages(def, sprites.sprites)
    IN  /\ \A p \in 1..(width * height) :
              RegionWrites(e.spritesheet, j * width, i * height, width, height)[p] >= 1
        /\ sprites.ok
        /\ subimages.ok
        /\ Region(e.spritesheet, j * width, i * height, width, height)
               = subimages.subimages[j + 1].px

\* C2: spritesheet composition.  Of every entry written, indexed or direct,
\* the region of subimage j in row band i equals subimage j composed of the
\* sprites rasterized for band i, and no band is left as RgbaImage::new made
\* it.
SpritesheetComposition ==
    run.entry.ok /\ run.pc # "panic" =>
        \A i \in 0..(run.entry.def.num_palettes - 1) :
            \A j \in 0..(run.entry.def.num_subimages - 1) :
                BandComposed(run.entry, i, j)

\* The same of the entries with indexed pixels alone.
IndexedSpritesheetComposition ==
    run.entry.ok /\ run.pc # "panic" /\ run.entry.def.pixel_data_type.kind = "Bpp" =>
        \A i \in 0..(run.entry.def.num_palettes - 1) :
            \A j \in 0..(run.entry.def.num_subimages - 1) :
                BandComposed(run.entry, i, j)

\* C3: malformed offset table.  When the first table entry exceeds the length
\* of the buffer the reader ends in an error (it is reading the table until
\* then): it does not panic, and does not go on with a shorter table.
TableLongerThanBufferIsAnError ==
    run.pc \notin { "read", "first" } /\ run.first_image_offset > Len(run.data)
        => run.pc \in { "table", "error" }

\* C8: run abort on a fatal entry error.  The spritesheets are written in the
\* order of the table, that of entry i before entry i + 1 is parsed, and when
\* entry k panics the run is over: the outputs are those of entries 0..k-1.
RunAbortsOnFatalEntry ==
    /\ Len(run.saved) = run.i
    /\ \A k \in 1..Len(run.saved) : run.saved[k] = k - 1
    /\ \A k \in run.failed :
          /\ run.pc = "panic"
          /\ run.i = k
          /\ run.saved = [j \in 1..k |-> j - 1]

\* Entry 1 of three panics after entry 0 was written, and entry 2, which is
\* never reached, is well-formed.
AbortedBeforeGoodEntry ==
    /\ run.pc = "panic"
    /\ run.failed = {1}
    /\ run.saved = <<0>>
    /\ ~run.entry.ok
    /\ Len(run.image_offsets) = 3
    /\ process_entry(run.data, run.image_offsets[3]).ok

====
